---- MODULE Spec2Model ----
(***************************************************************************)
(* A model of the transport layer of flux:                                 *)
(*   - the structural diff of remote/mock.go (Diff, diffValue, ...),       *)
(*   - the RPC server of remote/rpc (type RPCServer), appended to mock.go, *)
(*   - the HTTP error writer (WriteError, ErrorResponse, JSONResponse),    *)
(*     the service handlers of api.go and the HTTP client,                 *)
(*   - the registration of daemons (doRegister) and the routers' daemon    *)
(*     paths,                                                              *)
(*   - the routers (AddAPIRoutes, NewServiceRouter) and the binding of the *)
(*     handlers to their routes (NewHandler),                              *)
(*   - the patching of the instance configuration (service/config.go).     *)
(* Go values are records tagged with their runtime type; strings that the  *)
(* code builds (chunk paths) are sequences of one-character strings.       *)
(***************************************************************************)
EXTENDS Integers, Sequences, FiniteSets, TLC

\* Ground values are the ints 0..MaxInt; slices hold at most MaxLen elements.
MaxInt == 1
MaxLen == 2
\* The length of the long slices: their last index takes two digits.
LongLen == 11

VARIABLES
    \* the diff: the two values, what Diff gave on the first and on a
    \* repeated call, what it gave with the values exchanged, and where the
    \* caller is
    a, b, result, repeat, reverse, pc,
    \* the RPC transport: the operation called, the error the platform is
    \* scripted to give, the response on the wire, what the client's call
    \* returned, and where the call is
    rpcOp, implErr, wire, clientRes, rpcPc,
    \* the HTTP service: the handler that ran, the media types the
    \* request's Accept header lists, the error the service gave the
    \* handler, the arguments of the handler's call of WriteError, the
    \* response written, what the client made of it, and where the
    \* request is
    handler, accept, svcErr, call, resp, cli, httpPc,
    \* the operations of the service the handler invoked, in order, and
    \* the error that parsing the request's parameters and body gives
    invoked, malformed,
    \* the daemons' registration: for each instance, the session of its
    \* registration request, and the answer of the last connectivity
    \* lookup for it
    session, ping,
    \* the router: its routes with the handlers bound to them, the request
    \* it is given and what serving the request came to
    router, request, outcome,
    \* the instance configuration: the configuration, the patch, what
    \* Patch gave and what patching its result once more gave, and where
    \* the caller is
    config, patch, patched, repatched, confPc

diffVars == <<a, b, result, repeat, reverse, pc>>
rpcVars == <<rpcOp, implErr, wire, clientRes, rpcPc>>
httpVars == <<handler, accept, svcErr, call, resp, cli, httpPc, invoked, malformed>>
regVars == <<session, ping>>
routerVars == <<router, request, outcome>>
confVars == <<config, patch, patched, repatched, confPc>>
vars == <<a, b, result, repeat, reverse, pc, rpcOp, implErr, wire, clientRes, rpcPc,
          handler, accept, svcErr, call, resp, cli, httpPc, invoked, malformed,
          session, ping,
          router, request, outcome, config, patch, patched, repatched, confPc>>

-----------------------------------------------------------------------------
(* Strings: fmt.Sprintf and strings.Compare.                               *)

\* The characters the paths are made of, in ASCII order.
Alphabet == <<".", "0", "1", "2", "3", "4", "5", "6", "7", "8", "9",
              "A", "I", "P", "X", "[", "]", "a", "b", "n", "w">>

\* The rank of a character in ASCII order (bytes compare by it).
Ord(c) == CHOOSE i \in 1..Len(Alphabet) : Alphabet[i] = c

Digits == <<"0", "1", "2", "3", "4", "5", "6", "7", "8", "9">>

\* %d of a non-negative int.
RECURSIVE Itoa(_)
Itoa(n) ==
    IF n < 10 THEN <<Digits[n + 1]>>
    ELSE Itoa(n \div 10) \o <<Digits[(n % 10) + 1]>>

\* strings.Compare(p, q) == -1
RECURSIVE LexLess(_, _)
LexLess(p, q) ==
    IF q = <<>> THEN FALSE
    ELSE IF p = <<>> THEN TRUE
    ELSE IF Ord(Head(p)) < Ord(Head(q)) THEN TRUE
    ELSE IF Ord(Head(p)) > Ord(Head(q)) THEN FALSE
    ELSE LexLess(Tail(p), Tail(q))

\* fmt.Sprintf("%s[%d]", path, i)
IndexPath(path, i) == path \o <<"[">> \o Itoa(i) \o <<"]">>

\* %v of a map key: an int prints in decimal, a string as itself.
FormatV(key) == IF key.kt = "int" THEN Itoa(key.n) ELSE key.s

\* fmt.Sprintf(`%s[%v]`, path, key)
KeyPath(path, key) == path \o <<"[">> \o FormatV(key) \o <<"]">>

\* path + "." + field.Name
FieldPath(path, name) == path \o <<".">> \o name

-----------------------------------------------------------------------------
(* Types (reflect.Type): the kind, the element type and the fields of the  *)
(* Go types the model draws its values from:                               *)
(*   int, *int, []int, []*int,                                             *)
(*   S = struct{A int; b int; P *int},  *S,  O = struct{In S},             *)
(*   W = struct{w int} (no exported field, like time.Time),  *W,           *)
(*   map[interface{}]int,  *map[interface{}]int,                           *)
(*   map[interface{}]*int,                                                 *)
(*   map[interface{}][]int,                                               *)
(*   E = struct{A int; X interface{}},  func().                            *)

Fld(name, exported, type) == [name |-> name, exported |-> exported, type |-> type]
Typ(kind, elem, fields) == [kind |-> kind, elem |-> elem, fields |-> fields]

TypeTable ==
    [ int         |-> Typ("int", "", <<>>),
      PtrInt      |-> Typ("ptr", "int", <<>>),
      SliceInt    |-> Typ("slice", "int", <<>>),
      SlicePtrInt |-> Typ("slice", "PtrInt", <<>>),
      S           |-> Typ("struct", "", <<Fld(<<"A">>, TRUE, "int"),
                                         Fld(<<"b">>, FALSE, "int"),
                                         Fld(<<"P">>, TRUE, "PtrInt")>>),
      PtrS        |-> Typ("ptr", "S", <<>>),
      O           |-> Typ("struct", "", <<Fld(<<"I", "n">>, TRUE, "S")>>),
      W           |-> Typ("struct", "", <<Fld(<<"w">>, FALSE, "int")>>),
      PtrW        |-> Typ("ptr", "W", <<>>),
      MapInt      |-> Typ("map", "int", <<>>),
      PtrMapInt   |-> Typ("ptr", "MapInt", <<>>),
      MapPtrInt   |-> Typ("map", "PtrInt", <<>>),
      MapSliceInt |-> Typ("map", "SliceInt", <<>>),
      E           |-> Typ("struct", "", <<Fld(<<"A">>, TRUE, "int"),
                                         Fld(<<"X">>, TRUE, "interface")>>),
      interface   |-> Typ("interface", "", <<>>),
      Func        |-> Typ("func", "", <<>>) ]

\* typ.Kind(), typ.Elem(), typ.Field(i)
Kind(typ) == TypeTable[typ].kind
Elem(typ) == TypeTable[typ].elem
Fields(typ) == TypeTable[typ].fields

-----------------------------------------------------------------------------
(* Values (reflect.Value).                                                 *)

\* The zero reflect.Value, which reflect.Indirect gives for a nil pointer
\* and MapIndex for a missing key.
Invalid == [t |-> "invalid"]

\* The nil interface{} passed to Diff.
NilInterface == [t |-> "nil"]

IntV(n) == [t |-> "int", n |-> n]
NilPtr(t) == [t |-> t, nil |-> TRUE, elem |-> Invalid]
PtrTo(t, e) == [t |-> t, nil |-> FALSE, elem |-> e]
NilSlice(t) == [t |-> t, nil |-> TRUE, elems |-> <<>>]
SliceOf(t, s) == [t |-> t, nil |-> FALSE, elems |-> s]
StructOf(t, fs) == [t |-> t, fields |-> fs]
NilMap(t) == [t |-> t, nil |-> TRUE, m |-> <<>>]
MapOf(t, f) == [t |-> t, nil |-> FALSE, m |-> f]
IfaceOf(d) == [t |-> "interface", dyn |-> d]
FuncV(isNil) == [t |-> "Func", nil |-> isNil]

KeyInt(n) == [kt |-> "int", n |-> n]
KeyStr(s) == [kt |-> "string", s |-> s]

\* The keys of the maps: the int 1 and the strings "1" and "a" (the first
\* two print alike under %v).
Keys == {KeyInt(1), KeyStr(<<"1">>), KeyStr(<<"a">>)}

SeqsUpTo(S, n) == UNION {[1..k -> S] : k \in 0..n}
PartialFns(K, V) == UNION {[D -> V] : D \in SUBSET K}

Ints == {IntV(i) : i \in 0..MaxInt}
PtrInts == {NilPtr("PtrInt")} \cup {PtrTo("PtrInt", e) : e \in Ints}
SliceInts == {NilSlice("SliceInt")}
                \cup {SliceOf("SliceInt", s) : s \in SeqsUpTo(Ints, MaxLen)}
SlicePtrInts == {NilSlice("SlicePtrInt")}
                \cup {SliceOf("SlicePtrInt", s) : s \in SeqsUpTo(PtrInts, MaxLen)}
Ss == {StructOf("S", <<x, y, p>>) : x \in Ints, y \in Ints, p \in PtrInts}
PtrSs == {NilPtr("PtrS")} \cup {PtrTo("PtrS", e) : e \in Ss}
Os == {StructOf("O", <<s>>) : s \in Ss}
Ws == {StructOf("W", <<x>>) : x \in Ints}
PtrWs == {NilPtr("PtrW")} \cup {PtrTo("PtrW", e) : e \in Ws}
MapInts == {NilMap("MapInt")} \cup {MapOf("MapInt", f) : f \in PartialFns(Keys, Ints)}
PtrMapInts == {NilPtr("PtrMapInt")} \cup {PtrTo("PtrMapInt", e) : e \in MapInts}
MapPtrInts == {NilMap("MapPtrInt")}
                  \cup {MapOf("MapPtrInt", f) : f \in PartialFns(Keys, PtrInts)}
\* Slices of LongLen or one more ints, all 0 but for a 1 at index 2, at
\* index LongLen - 1, at both or at neither; and the maps holding one under
\* the key "a".
LongSlices ==
    {SliceOf("SliceInt", [i \in 1..n |-> IntV(IF (i - 1) \in P THEN 1 ELSE 0)]) :
        n \in {LongLen, LongLen + 1}, P \in SUBSET {2, LongLen - 1}}
MapSliceInts == {NilMap("MapSliceInt")}
                    \cup {MapOf("MapSliceInt", f) :
                              f \in PartialFns({KeyStr(<<"a">>)}, LongSlices)}
Es == {StructOf("E", <<x, IfaceOf(d)>>) : x \in Ints, d \in {NilInterface} \cup Ints}
Funcs == {FuncV(TRUE), FuncV(FALSE)}

ValuesOf ==
    [ int         |-> Ints,
      PtrInt      |-> PtrInts,
      SliceInt    |-> SliceInts,
      SlicePtrInt |-> SlicePtrInts,
      S           |-> Ss,
      PtrS        |-> PtrSs,
      O           |-> Os,
      W           |-> Ws,
      PtrW        |-> PtrWs,
      MapInt      |-> MapInts,
      PtrMapInt   |-> PtrMapInts,
      MapPtrInt   |-> MapPtrInts,
      MapSliceInt |-> MapSliceInts,
      E           |-> Es,
      Func        |-> Funcs ]

RuntimeTypes == DOMAIN ValuesOf

\* reflect.TypeOf(v), reflect.ValueOf(v)
TypeOf(v) == v.t
ValueOf(v) == IF v.t = "nil" THEN Invalid ELSE v

\* v.Kind(): Invalid for the zero Value.
KindOf(v) == IF v.t \in DOMAIN TypeTable THEN Kind(v.t) ELSE "invalid"

\* reflect.Indirect(v): v itself unless v is a pointer; the zero Value for
\* a nil pointer.
Indirect(v) ==
    IF KindOf(v) # "ptr" THEN v
    ELSE IF v.nil THEN Invalid ELSE v.elem

\* The orders in which a range over MapKeys may visit the keys.
Orders == {o \in [1..Cardinality(Keys) -> Keys] :
              \A i, j \in 1..Cardinality(Keys) : i # j => o[i] # o[j]}

\* v.MapKeys(), in the order ord.
MapKeys(v, ord) == SelectSeq(ord, LAMBDA k : k \in DOMAIN v.m)

-----------------------------------------------------------------------------
(* Chunks and results.                                                     *)

Chunk(deleted, added, path) == [Deleted |-> deleted, Added |-> added, Path |-> path]

Changed(A, B, path) == Chunk(<<A>>, <<B>>, path)
Added(B, path) == Chunk(<<>>, <<B>>, path)
Removed(A, path) == Chunk(<<A>>, <<>>, path)

ErrNotDiffable == "values are not diffable"

\* What a call gives: chunks and a nil error, an error and no chunks, or a
\* panic that unwinds the call.
Ok(chunks) == [st |-> "ok", chunks |-> chunks, err |-> "nil"]
Err(e) == [st |-> "err", chunks |-> <<>>, err |-> e]
Panic(e) == [st |-> "panic", chunks |-> <<>>, err |-> e]
NoResult == [st |-> "none", chunks |-> <<>>, err |-> "nil"]

\* sorted.Less: lexically on path.
Less(c, d) == LexLess(c.Path, d.Path)

\* One pass of the inner loop of insertionSort: x moves left while it is
\* less than its left neighbour.
RECURSIVE Insert(_, _)
Insert(s, x) ==
    IF s = <<>> THEN <<x>>
    ELSE IF Less(x, s[Len(s)]) THEN Insert(SubSeq(s, 1, Len(s) - 1), x) \o <<s[Len(s)]>>
    ELSE s \o <<x>>

\* sort.Sort(sorted(diffs)): insertion sort, which sort.Sort runs on slices
\* of fewer than 12 elements.
RECURSIVE SortChunks(_)
SortChunks(s) ==
    IF s = <<>> THEN <<>>
    ELSE Insert(SortChunks(SubSeq(s, 1, Len(s) - 1)), s[Len(s)])

-----------------------------------------------------------------------------
(* The structural diff.                                                    *)

RECURSIVE diffValue(_, _, _, _, _)
RECURSIVE diffStructFrom(_, _, _, _, _, _, _)
RECURSIVE diffElements(_, _, _, _, _, _, _)
RECURSIVE diffKeysA(_, _, _, _, _, _, _)

\* The loop of diffStruct from field i on (1-based), diffs being the chunks
\* found so far. a.Field(i) panics unless a is a struct.
diffStructFrom(x, y, structTyp, path, ord, i, diffs) ==
    IF i > Len(Fields(structTyp)) THEN Ok(diffs)
    ELSE LET field == Fields(structTyp)[i] IN
         IF ~field.exported
         THEN diffStructFrom(x, y, structTyp, path, ord, i + 1, diffs)
         ELSE IF KindOf(x) # "struct" \/ KindOf(y) # "struct"
         THEN Panic("reflect: call of reflect.Value.Field on zero Value")
         ELSE IF i > Len(x.fields) \/ i > Len(y.fields)
         THEN Panic("reflect: Field index out of range")
         ELSE LET fieldDiffs == diffValue(x.fields[i], y.fields[i], field.type,
                                          FieldPath(path, field.name), ord)
              IN IF fieldDiffs.st # "ok" THEN fieldDiffs
                 ELSE diffStructFrom(x, y, structTyp, path, ord, i + 1,
                                     diffs \o fieldDiffs.chunks)

\* diff each exported field individually.
diffStruct(x, y, structTyp, path, ord) ==
    diffStructFrom(x, y, structTyp, path, ord, 1, <<>>)

\* The first loop of diffArrayOrSlice from index i on (0-based, as in the
\* code), then the over- or underbite.
diffElements(x, y, elemTyp, path, ord, i, changed) ==
    IF i < Len(x.elems) /\ i < Len(y.elems)
    THEN LET d == diffValue(x.elems[i + 1], y.elems[i + 1], elemTyp,
                            IndexPath(path, i), ord)
         IN IF d.st # "ok" THEN d
            ELSE diffElements(x, y, elemTyp, path, ord, i + 1, changed \o d.chunks)
    ELSE IF i < Len(x.elems)
    THEN Ok(changed \o <<Chunk(SubSeq(x.elems, i + 1, Len(x.elems)), <<>>,
                               IndexPath(path, i))>>)
    ELSE IF i < Len(y.elems)
    THEN Ok(changed \o <<Chunk(<<>>, SubSeq(y.elems, i + 1, Len(y.elems)),
                               IndexPath(path, i))>>)
    ELSE Ok(changed)

\* diff each element, and include over- or underbite. a.Len() panics unless
\* a is a slice.
diffArrayOrSlice(x, y, sliceTyp, path, ord) ==
    IF KindOf(x) # "slice" \/ KindOf(y) # "slice"
    THEN Panic("reflect: call of reflect.Value.Len on zero Value")
    ELSE diffElements(x, y, Elem(sliceTyp), path, ord, 0, <<>>)

\* The first loop of diffMap over the keys of a still to visit.
diffKeysA(x, y, elemTyp, path, ord, keysA, diffs) ==
    IF keysA = <<>> THEN Ok(diffs)
    ELSE LET keyA == Head(keysA) IN
         IF keyA \in DOMAIN y.m
         THEN LET moreDiffs == diffValue(x.m[keyA], y.m[keyA], elemTyp,
                                         KeyPath(path, keyA), ord)
              IN IF moreDiffs.st # "ok" THEN moreDiffs
                 ELSE diffKeysA(x, y, elemTyp, path, ord, Tail(keysA),
                                diffs \o moreDiffs.chunks)
         ELSE diffKeysA(x, y, elemTyp, path, ord, Tail(keysA),
                        Append(diffs, Removed(x.m[keyA], KeyPath(path, keyA))))

\* The second loop of diffMap: the keys of b that a lacks, as additions.
AddedKeys(x, y, path, keysB) ==
    LET onlyB == SelectSeq(keysB, LAMBDA k : k \notin DOMAIN x.m)
    IN [i \in 1..Len(onlyB) |-> Added(y.m[onlyB[i]], KeyPath(path, onlyB[i]))]

\* diff each entry in the map, and include entries in only one of A, B;
\* the chunks are sorted before they are returned.
diffMap(x, y, elemTyp, path, ord) ==
    IF KindOf(x) # "map" \/ KindOf(y) # "map"
    THEN Err("both values must be maps")
    ELSE LET first == diffKeysA(x, y, elemTyp, path, ord, MapKeys(x, ord), <<>>)
         IN IF first.st # "ok" THEN first
            ELSE Ok(SortChunks(first.chunks \o AddedKeys(x, y, path, MapKeys(y, ord))))

\* The default case of diffValue, all ground types: a.Interface() panics on
\* the zero Value.
diffGround(x, y, path) ==
    IF x.t = "invalid" \/ y.t = "invalid"
    THEN Panic("reflect: call of reflect.Value.Interface on zero Value")
    ELSE IF x # y THEN Ok(<<Changed(x, y, path)>>)
    ELSE Ok(<<>>)

\* Compare two reflected values and compile a list of differences between
\* them. typ.Kind() on the nil Type (of a nil interface{}) panics.
diffValue(x, y, typ, path, ord) ==
    IF typ = "nil" THEN Panic("invalid memory address or nil pointer dereference")
    ELSE CASE Kind(typ) = "slice" -> diffArrayOrSlice(x, y, typ, path, ord)
           [] Kind(typ) = "interface" -> Err("interface diff not implemented")
           [] Kind(typ) = "ptr" ->
                  diffValue(Indirect(x), Indirect(y), Elem(typ), path, ord)
           [] Kind(typ) = "struct" -> diffStruct(x, y, typ, path, ord)
           [] Kind(typ) = "map" -> diffMap(x, y, Elem(typ), path, ord)
           [] Kind(typ) = "func" ->
                  Err("func diff not implemented (and not implementable)")
           [] OTHER -> diffGround(x, y, path)

\* Diff without its special case at the top.
DiffUnchecked(x, y, ord) ==
    diffValue(ValueOf(x), ValueOf(y), TypeOf(x), <<>>, ord)

\* Diff giving its one error, ErrNotDiffable, for whatever goes wrong.
DiffOneError(x, y, ord) ==
    IF TypeOf(x) # TypeOf(y) THEN Err(ErrNotDiffable)
    ELSE LET r == diffValue(ValueOf(x), ValueOf(y), TypeOf(x), <<>>, ord)
         IN IF r.st = "err" THEN Err(ErrNotDiffable) ELSE r

\* Diff one object with another: values of different runtime types are not
\* comparable.
Diff(x, y, ord) ==
    IF TypeOf(x) # TypeOf(y) THEN Err(ErrNotDiffable)
    ELSE diffValue(ValueOf(x), ValueOf(y), TypeOf(x), <<>>, ord)

\* reflect.DeepEqual: the same type and, recursively, the same contents; a
\* nil slice or map differs from an empty one, every field of a struct
\* counts, and funcs are equal only when both are nil.
RECURSIVE DeepEqual(_, _)
DeepEqual(x, y) ==
    IF x.t # y.t THEN FALSE
    ELSE IF x.t \in {"nil", "invalid"} THEN TRUE
    ELSE CASE Kind(x.t) = "slice" ->
                  /\ x.nil = y.nil
                  /\ Len(x.elems) = Len(y.elems)
                  /\ \A i \in 1..Len(x.elems) : DeepEqual(x.elems[i], y.elems[i])
           [] Kind(x.t) = "interface" -> DeepEqual(x.dyn, y.dyn)
           [] Kind(x.t) = "ptr" ->
                  /\ x.nil = y.nil
                  /\ (~x.nil => DeepEqual(x.elem, y.elem))
           [] Kind(x.t) = "struct" ->
                  \A i \in 1..Len(x.fields) : DeepEqual(x.fields[i], y.fields[i])
           [] Kind(x.t) = "map" ->
                  /\ x.nil = y.nil
                  /\ DOMAIN x.m = DOMAIN y.m
                  /\ \A k \in DOMAIN x.m : DeepEqual(x.m[k], y.m[k])
           [] Kind(x.t) = "func" -> x.nil /\ y.nil
           [] OTHER -> x.n = y.n

-----------------------------------------------------------------------------
(* Errors. An error value has a kind (the classified kinds are the Go      *)
(* types the code switches on, "plain" is any other error), the text of    *)
(* its message, a help text, and may be wrapped (errors.Wrap), in which    *)
(* case errors.Cause gives the error inside. json.Marshal may fail on a    *)
(* plain error (one of a type with a field JSON cannot encode); it does    *)
(* not on a classified one, nor on a wrapped one, whose wrapping has no    *)
(* exported field.                                                         *)

Classified == {"NotFound", "UserConfigProblem", "ServerException"}

Msgs == {<<"e1">>, <<"e2">>}
Helps == {"h1", "h2"}

NoError == [kind |-> "nil", msg |-> <<>>, help |-> "", wrapped |-> FALSE, encodable |-> TRUE]

ErrorOf(kind, msg, help, wrapped, encodable) ==
    [kind |-> kind, msg |-> msg, help |-> help, wrapped |-> wrapped, encodable |-> encodable]

ClassifiedErrors ==
    {ErrorOf(k, m, h, w, TRUE) : k \in Classified, m \in Msgs, h \in Helps, w \in BOOLEAN}
PlainErrors ==
    {ErrorOf("plain", m, "", w, TRUE) : m \in Msgs, w \in BOOLEAN}
        \cup {ErrorOf("plain", m, "", FALSE, FALSE) : m \in Msgs}
Errors == ClassifiedErrors \cup PlainErrors

\* errors.Cause(err): the error inside the wrapping.
Cause(err) == [err EXCEPT !.wrapped = FALSE]

\* err.Error(): a wrapped error prefixes the text of its cause.
ErrorText(err) == IF err.wrapped THEN <<"context: ">> \o err.msg ELSE err.msg

\* err.(*fluxerr.Error): the dynamic type itself, which a wrapped error
\* does not have.
IsFluxError(err) == err.kind \in Classified /\ ~err.wrapped

-----------------------------------------------------------------------------
(* The RPC transport: RPCServer, net/rpc between server and client, and    *)
(* the client's call.                                                      *)

Operations == {"Ping", "Version", "Export", "ListServices", "ListImages",
               "UpdateManifests", "SyncNotify", "JobStatus", "SyncStatus",
               "PublicSSHKey"}

\* What a method of RPCServer leaves: the error it returns and the
\* response struct it filled in (Error is the response's own field).
Served(err, res, errField) == [err |-> err, Result |-> res, Error |-> errField]

\* RPCServer.Export: a classified error is put in resp.Error, and the error
\* is returned all the same.
RPCServerExport(v, err) ==
    Served(err, v, IF IsFluxError(err) THEN err ELSE NoError)

\* RPCServer.ListServices: the cause of the error, when classified, is put
\* in resp.Error and the method returns nil.
RPCServerListServices(v, err) ==
    IF err # NoError /\ IsFluxError(Cause(err))
    THEN Served(NoError, v, Cause(err))
    ELSE Served(err, v, NoError)

\* The other methods: the answer goes in the response, the error is
\* returned as it is.
RPCServerPlain(v, err) == Served(err, v, NoError)

RPCServerMethod(op, v, err) ==
    CASE op = "Export" -> RPCServerExport(v, err)
      [] op = "ListServices" -> RPCServerListServices(v, err)
      [] OTHER -> RPCServerPlain(v, err)

NoReply == [Result |-> "invalidRequest", Error |-> NoError]

\* net/rpc's sendResponse: when the method returned an error with some
\* text, only that text crosses and the reply body is dropped.
SendResponse(served) ==
    LET errmsg == IF served.err # NoError THEN ErrorText(served.err) ELSE <<>>
    IN IF errmsg # <<>>
       THEN [Error |-> errmsg, Reply |-> NoReply]
       ELSE [Error |-> <<>>, Reply |-> [Result |-> served.Result, Error |-> served.Error]]

NoWire == [Error |-> <<>>, Reply |-> NoReply]

\* The client's call: rpc.Client.Call gives a ServerError holding the text
\* when the response carries one; otherwise the client wrapper gives the
\* classified error of the reply's Error field, if any.
ClientCall(w) ==
    IF w.Error # <<>>
    THEN [Result |-> "none", err |-> ErrorOf("plain", w.Error, "", FALSE, TRUE)]
    ELSE [Result |-> w.Reply.Result, err |-> w.Reply.Error]

NoClientRes == [Result |-> "none", err |-> NoError]

-----------------------------------------------------------------------------
(* The HTTP error writer, the handlers and the client.                     *)

StatusOK == 200
StatusCreated == 201
StatusAccepted == 202
StatusNoContent == 204
StatusBadRequest == 400
StatusUnauthorized == 401
StatusNotFound == 404
StatusGone == 410
StatusUnprocessableEntity == 422
StatusInternalServerError == 500

JSONType == "application/json; charset=utf-8"
TextType == "text/plain; charset=utf-8"

\* The media types an Accept header may list; no header lists none.
MediaTypes == {"application/json", "text/plain", "image/png"}
Accepts == SUBSET MediaTypes

\* The errors the transport itself defines.
ErrorDeprecated ==
    ErrorOf("Deprecated", <<"API endpoint deprecated">>, "help: deprecated", FALSE, TRUE)
ErrorUnauthorized ==
    ErrorOf("Unauthorized", <<"request failed authentication">>, "help: unauthorized",
            FALSE, TRUE)
MakeAPINotFound ==
    ErrorOf("NotFound", <<"API endpoint not found">>, "help: not found", FALSE, TRUE)

\* err.BaseError of a classified error: the envelope without the kind.
BaseErrorOf(err) == ErrorOf("BaseError", err.msg, err.help, FALSE, TRUE)

\* flux.CoverAllError(err): an envelope around any error, with a generic
\* help text.
CoverAllError(err) == ErrorOf("BaseError", ErrorText(err), "help: internal error", FALSE, TRUE)

\* Response bodies: a JSON error envelope, a JSON object without the
\* envelope's fields, a JSON result, text, or nothing.
EnvelopeBody(error, help) == [form |-> "envelope", error |-> error, help |-> help, text |-> <<>>]
ObjectBody == [form |-> "object", error |-> <<>>, help |-> "", text |-> <<>>]
ResultBody == [form |-> "result", error |-> <<>>, help |-> "", text |-> <<>>]
TextBody(text) == [form |-> "text", error |-> <<>>, help |-> "", text |-> text]
NoBody == [form |-> "none", error |-> <<>>, help |-> "", text |-> <<>>]

Response(status, ctype, body) == [status |-> status, ctype |-> ctype, body |-> body]
NoResponse == Response(0, "", NoBody)

\* json.Marshal(err): the envelope of an error that is, or embeds, a
\* BaseError; an empty object for an error with no exported field (a plain
\* or a wrapped one).
MarshalError(err) ==
    IF err.kind # "plain" /\ ~err.wrapped
    THEN EnvelopeBody(err.msg, err.help)
    ELSE ObjectBody

\* negotiateContentType(r, offers): the first offer the Accept header
\* lists, or "".
RECURSIVE negotiateContentType(_, _)
negotiateContentType(acc, offers) ==
    IF offers = <<>> THEN ""
    ELSE IF Head(offers) \in acc THEN Head(offers)
    ELSE negotiateContentType(acc, Tail(offers))

\* The end of WriteError: the error's text as plain text.
WriteErrorText(code, err) == Response(code, TextType, TextBody(ErrorText(err)))

\* WriteError as it was before content negotiation: always the plain text.
WriteErrorPlainOnly(acc, code, err) == WriteErrorText(code, err)

\* WriteError(w, r, code, err)
WriteError(acc, code, err) ==
    IF acc # {}
    THEN LET chosen == negotiateContentType(acc, <<"application/json", "text/plain">>)
         IN CASE chosen = "application/json" ->
                     IF ~err.encodable
                     THEN Response(StatusInternalServerError, TextType,
                                   TextBody(<<"Error encoding error response">>
                                            \o ErrorText(err)))
                     ELSE Response(code, JSONType, MarshalError(err))
              [] chosen = "text/plain" ->
                     IF err.kind = "BaseError"
                     THEN Response(code, TextType, TextBody(<<err.help>>))
                     ELSE Response(code, TextType, TextBody(ErrorText(err)))
              [] OTHER -> WriteErrorText(code, err)
    ELSE WriteErrorText(code, err)

Call(code, err) == [code |-> code, err |-> err]
NoCall == Call(0, NoError)

\* ErrorResponse without errors.Cause: the switch is on the error itself.
ErrorResponseNoCause(apiError) ==
    IF apiError.wrapped THEN Call(StatusInternalServerError, CoverAllError(apiError))
    ELSE CASE apiError.kind = "NotFound" -> Call(StatusNotFound, BaseErrorOf(apiError))
           [] apiError.kind = "UserConfigProblem" ->
                  Call(StatusUnprocessableEntity, BaseErrorOf(apiError))
           [] apiError.kind = "ServerException" ->
                  Call(StatusInternalServerError, BaseErrorOf(apiError))
           [] OTHER -> Call(StatusInternalServerError, CoverAllError(apiError))

\* ErrorResponse(w, r, apiError): the status code and the error it passes
\* to WriteError.
ErrorResponse(apiError) ==
    LET err == Cause(apiError)
    IN CASE err.kind = "NotFound" -> Call(StatusNotFound, BaseErrorOf(err))
         [] err.kind = "UserConfigProblem" ->
                Call(StatusUnprocessableEntity, BaseErrorOf(err))
         [] err.kind = "ServerException" ->
                Call(StatusInternalServerError, BaseErrorOf(err))
         [] OTHER -> Call(StatusInternalServerError, CoverAllError(apiError))

\* The error of json.Marshal for a result it cannot encode.
MarshalFailure == ErrorOf("plain", <<"json: unsupported type">>, "", FALSE, TRUE)

\* JSONResponse that gives up when the result does not marshal, leaving
\* the response unwritten.
JSONResponseUnfinished(acc, marshals) ==
    IF marshals THEN Response(StatusOK, JSONType, ResultBody) ELSE NoResponse

\* JSONResponse(w, r, result): 200 and the marshaled result, or, when the
\* result does not marshal, ErrorResponse of the marshal error.
JSONResponse(acc, marshals) ==
    IF marshals
    THEN Response(StatusOK, JSONType, ResultBody)
    ELSE WriteError(acc, ErrorResponse(MarshalFailure).code,
                    ErrorResponse(MarshalFailure).err)

\* A handler of the common shape (ListServices, JobStatus, SyncStatus,
\* Export, Status, ...): the service's error goes to ErrorResponse, its
\* result to JSONResponse. This is the call of WriteError it ends in.
ServiceHandlerCall(err, marshals) ==
    IF err # NoError THEN ErrorResponse(err)
    ELSE IF marshals THEN NoCall
    ELSE ErrorResponse(MarshalFailure)

\* The response of such a handler.
ServiceHandler(acc, err, marshals) ==
    IF err # NoError
    THEN WriteError(acc, ErrorResponse(err).code, ErrorResponse(err).err)
    ELSE JSONResponse(acc, marshals)

\* HTTPService.ListImages: a service spec that does not parse is answered
\* with 400 and the wrapped parse error; else as the common shape.
ListImagesCall(parseErr, err, marshals) ==
    IF parseErr # NoError
    THEN Call(StatusBadRequest, [parseErr EXCEPT !.wrapped = TRUE])
    ELSE ServiceHandlerCall(err, marshals)

ListImages(acc, parseErr, err, marshals) ==
    IF parseErr # NoError
    THEN WriteError(acc, StatusBadRequest, [parseErr EXCEPT !.wrapped = TRUE])
    ELSE ServiceHandler(acc, err, marshals)

\* The errors of parsing a request's parameters and of decoding its body:
\* plain errors that json.Marshal encodes.
ParseErrors == {e \in PlainErrors : e.encodable /\ ~e.wrapped}

\* A handler that invokes its operation of the service whether the request
\* parsed or not.
InvokesUnparsed(h, parseErr) == <<h>>

\* The operations of the service a handler invokes: it returns before the
\* call when the request did not parse.
Invokes(h, parseErr) == IF parseErr # NoError THEN <<>> ELSE <<h>>

\* HTTPService.UpdateImages: the first of its parses that fails (of the
\* form, a service spec, the image spec, the release kind, an excluded
\* service) is answered with 400 and the wrapped parse error; else as the
\* common shape.
UpdateImagesCall(parseErr, err, marshals) ==
    IF parseErr # NoError
    THEN Call(StatusBadRequest, [parseErr EXCEPT !.wrapped = TRUE])
    ELSE ServiceHandlerCall(err, marshals)

\* HTTPService.UpdatePolicies: a body that does not decode is answered with
\* 400 and the decoder's error; else as the common shape.
UpdatePoliciesCall(parseErr, err, marshals) ==
    IF parseErr # NoError THEN Call(StatusBadRequest, parseErr)
    ELSE ServiceHandlerCall(err, marshals)

\* The handlers that decode the body, call the service and write 200.
DecodingHandlers == {"LogEvent", "SetConfig", "PatchConfig"}

\* HTTPService.LogEvent, SetConfig, PatchConfig: a body that does not
\* decode is answered with 400 and the decoder's error, an error of the
\* service goes to ErrorResponse.
DecodingHandlerCall(parseErr, err) ==
    IF parseErr # NoError THEN Call(StatusBadRequest, parseErr)
    ELSE IF err # NoError THEN ErrorResponse(err)
    ELSE NoCall

\* HTTPService.SyncNotify: an error of the service goes to ErrorResponse.
SyncNotifyCall(err) == IF err # NoError THEN ErrorResponse(err) ELSE NoCall

\* IsConnected without its special case: every error goes to ErrorResponse.
IsConnectedCallPlain(err) == IF err # NoError THEN ErrorResponse(err) ELSE NoCall

\* IsConnected answering 204 without looking at the error.
IsConnectedCallIgnoresError(err) == NoCall

\* HTTPService.IsConnected: a UserConfigProblem (the error itself, not its
\* cause) is written as 404, any other error goes to ErrorResponse.
IsConnectedCall(err) ==
    IF err = NoError THEN NoCall
    ELSE IF err.kind = "UserConfigProblem" /\ ~err.wrapped
    THEN Call(StatusNotFound, err)
    ELSE ErrorResponse(err)

\* The response of a handler that called WriteError with c, or else
\* answered otherwise.
Written(acc, c, otherwise) ==
    IF c # NoCall THEN WriteError(acc, c.code, c.err) ELSE otherwise

\* strings.HasPrefix(Content-Type, "application/json")
IsJSON(ctype) == ctype \in {"application/json", JSONType}

\* resp.Status + " " + body
StatusLine(r) == <<r.status, " ">> \o r.body.text

\* json.NewDecoder(resp.Body).Decode(&niceError): the envelope's fields,
\* those missing left empty; a body that is no JSON fails to decode.
DecodeBaseError(body) ==
    IF body.form \in {"envelope", "object", "result"}
    THEN ErrorOf("BaseError", body.error, body.help, FALSE, TRUE)
    ELSE ErrorOf("plain", <<"decoding error in response body">>, "", TRUE, TRUE)

\* executeRequest without the content type test: every error body is read
\* as text.
executeRequestTextOnly(r) ==
    CASE r.status \in {StatusOK, StatusCreated, StatusNoContent} ->
             [status |-> r.status, err |-> NoError]
      [] r.status = StatusUnauthorized ->
             [status |-> r.status, err |-> ErrorUnauthorized]
      [] OTHER -> [status |-> r.status,
                   err |-> ErrorOf("plain", StatusLine(r), "", FALSE, TRUE)]

\* Client.executeRequest: the response and the error made of it.
executeRequest(r) ==
    CASE r.status \in {StatusOK, StatusCreated, StatusNoContent} ->
             [status |-> r.status, err |-> NoError]
      [] r.status = StatusUnauthorized ->
             [status |-> r.status, err |-> ErrorUnauthorized]
      [] OTHER ->
             IF IsJSON(r.ctype)
             THEN [status |-> r.status, err |-> DecodeBaseError(r.body)]
             ELSE [status |-> r.status,
                   err |-> ErrorOf("plain", StatusLine(r), "", FALSE, TRUE)]

NoClient == [status |-> 0, err |-> NoError]

\* The status codes WriteError is called with.
ErrorCodes == {StatusBadRequest, StatusUnauthorized, StatusNotFound, StatusGone,
               StatusUnprocessableEntity, StatusInternalServerError}

-----------------------------------------------------------------------------
(* The registration of daemons: the router's daemon paths, doRegister, the *)
(* session that lasts as long as the daemon's connection, and the          *)
(* connectivity lookup.                                                    *)

Instances == {"i1", "i2"}

\* The version tags a daemon may connect on.
Tags == {"v4", "v5", "v6"}

\* The routes NewServiceRouter names besides those of NewAPIRouter.
ServiceRoutes ==
    {"Automate", "Deautomate", "Lock", "Unlock", "History", "Status", "GetConfig",
     "SetConfig", "PatchConfig", "GenerateDeployKeys", "PostIntegrationsGithub",
     "RegisterDaemonV4", "RegisterDaemonV5", "IsConnected", "NotFound"}

\* The routes of AddUpstreamRoutes.
UpstreamRoutes == {"RegisterDaemonV6", "LogEvent"}

\* The handlers NewHandler binds, by route name.
Handlers ==
    {"History", "Status", "GetConfig", "SetConfig", "PatchConfig", "GenerateDeployKeys",
     "PostIntegrationsGithub", "IsConnected",
     "ListServices", "ListImages", "UpdateImages", "UpdatePolicies", "Export",
     "SyncNotify", "JobStatus", "SyncStatus",
     "RegisterDaemonV6", "LogEvent"}

\* The route of a tag's daemon path, /<tag>/daemon.
DaemonRoute(tag) ==
    CASE tag = "v4" -> "RegisterDaemonV4"
      [] tag = "v5" -> "RegisterDaemonV5"
      [] tag = "v6" -> "RegisterDaemonV6"

\* The generation of the RPC client a route's handler makes: RegisterV6
\* makes rpc.NewClientV6; a route without a handler makes none.
ClientOfRoute(route) ==
    IF route \in Handlers /\ route = "RegisterDaemonV6" THEN "v6" ELSE "none"

\* A session: where the registration request is, the tag it came on, the
\* generation of its RPC client, the status answered, the stream, the RPC
\* client, whether the instance is in the registry of live daemons, and
\* what RegisterDaemon returned.
NoSession ==
    [pc |-> "start", tag |-> "none", gen |-> "none", status |-> 0, ws |-> "none",
     rpcClient |-> "none", registered |-> FALSE, err |-> "none"]

NoPing == [status |-> 0, live |-> FALSE, after |-> FALSE]

\* A daemon path without a handler: the router answers not found.
NoHandler(s, tag) == [s EXCEPT !.pc = "returned", !.tag = tag, !.status = StatusNotFound]

\* doRegister going on after a failed upgrade, without the return.
doRegisterNoReturn(s, tag) ==
    [s EXCEPT !.pc = "blocked", !.tag = tag, !.status = StatusBadRequest,
              !.gen = ClientOfRoute(DaemonRoute(tag)), !.rpcClient = "open",
              !.registered = TRUE]

\* doRegister when websocket.Upgrade fails: 400 and return.
doRegisterUpgradeFailed(s, tag) ==
    [s EXCEPT !.pc = "returned", !.tag = tag, !.status = StatusBadRequest]

\* doRegister when the upgrade succeeds, up to where it blocks: the RPC
\* client is made on the stream and RegisterDaemon is called with it,
\* which enters the instance in the registry.
doRegisterUpgraded(s, tag) ==
    [s EXCEPT !.pc = "blocked", !.tag = tag, !.status = 101, !.ws = "open",
              !.gen = ClientOfRoute(DaemonRoute(tag)), !.rpcClient = "open",
              !.registered = TRUE]

\* RegisterDaemon returns: the instance leaves the registry.
RegisterDaemonReturns(s, err) == [s EXCEPT !.registered = FALSE, !.err = err]

\* The clean-up of doRegister done only when RegisterDaemon gave no error.
doRegisterCleanUpOnSuccess(s) ==
    IF s.err = "nil"
    THEN [s EXCEPT !.pc = "returned", !.rpcClient = "closed", !.ws = "closed"]
    ELSE [s EXCEPT !.pc = "returned"]

\* The clean-up of doRegister: rpcClient.Close(), which also closes the
\* stream; then doRegister returns.
doRegisterCleanUp(s) ==
    [s EXCEPT !.pc = "returned", !.rpcClient = "closed", !.ws = "closed"]

\* IsDaemonConnected(inst): nil for an instance in the registry, an error
\* otherwise.
NotConnectedErrors ==
    {ErrorOf("UserConfigProblem", <<"e1">>, "h1", FALSE, TRUE),
     ErrorOf("plain", <<"e1">>, "", FALSE, TRUE)}

IsDaemonConnected(s) == IF s.registered THEN {NoError} ELSE NotConnectedErrors

-----------------------------------------------------------------------------
(* The routers: the routes in the order they are registered, the binding   *)
(* of handlers to them by name, and the serving of a request by the first  *)
(* route that matches it. A path is the sequence of its segments, so that  *)
(* /v1/x is <<"v1", "x">>, /v1/ is <<"v1", "">> and /v1 is <<"v1">>.       *)

\* r.NewRoute().Name(name).Methods(methods).Path(path).Queries(queries): a
\* route with no handler yet.
Route(name, methods, path, queries) ==
    [name |-> name, methods |-> methods, matcher |-> "Path", path |-> path,
     queries |-> queries, handler |-> "none"]

\* r.NewRoute().Name(name).PathPrefix(prefix).HandlerFunc(deprecated) and
\* r.NewRoute().Name(name).Path(path).HandlerFunc(deprecated)
DeprecatedRoute(name, matcher, path) ==
    [name |-> name, methods |-> {}, matcher |-> matcher, path |-> path,
     queries |-> {}, handler |-> "deprecated"]

\* AddAPIRoutes without the route of the second retired version.
AddAPIRoutesV1Only(r) ==
    r \o <<DeprecatedRoute("Deprecated:v1", "PathPrefix", <<"v1">>),
           DeprecatedRoute("Deprecated:PostOrGetRelease", "Path", <<"v4", "release">>),
           Route("ListServices", {"GET"}, <<"v3", "services">>, {"namespace"}),
           Route("ListImages", {"GET"}, <<"v3", "images">>, {"service"}),
           Route("UpdateImages", {"POST"}, <<"v6", "update-images">>,
                 {"service", "image", "kind"}),
           Route("UpdatePolicies", {"PATCH"}, <<"v4", "policies">>, {}),
           Route("SyncNotify", {"POST"}, <<"v6", "sync">>, {}),
           Route("JobStatus", {"GET"}, <<"v6", "jobs">>, {"id"}),
           Route("SyncStatus", {"GET"}, <<"v6", "sync">>, {"ref"}),
           Route("Export", {"HEAD", "GET"}, <<"v5", "export">>, {})>>

\* AddAPIRoutes(r): the retired versions and endpoints first, then the
\* routes of the API.
AddAPIRoutes(r) ==
    r \o <<DeprecatedRoute("Deprecated:v1", "PathPrefix", <<"v1">>),
           DeprecatedRoute("Deprecated:v2", "PathPrefix", <<"v2">>),
           DeprecatedRoute("Deprecated:PostOrGetRelease", "Path", <<"v4", "release">>),
           Route("ListServices", {"GET"}, <<"v3", "services">>, {"namespace"}),
           Route("ListImages", {"GET"}, <<"v3", "images">>, {"service"}),
           Route("UpdateImages", {"POST"}, <<"v6", "update-images">>,
                 {"service", "image", "kind"}),
           Route("UpdatePolicies", {"PATCH"}, <<"v4", "policies">>, {}),
           Route("SyncNotify", {"POST"}, <<"v6", "sync">>, {}),
           Route("JobStatus", {"GET"}, <<"v6", "jobs">>, {"id"}),
           Route("SyncStatus", {"GET"}, <<"v6", "sync">>, {"ref"}),
           Route("Export", {"HEAD", "GET"}, <<"v5", "export">>, {})>>

NewAPIRouter == AddAPIRoutes(<<>>)

\* AddNotFoundRoutes(r): a route with no matcher, which every request
\* matches.
AddNotFoundRoutes(r) ==
    Append(r, [name |-> "NotFound", methods |-> {}, matcher |-> "none", path |-> <<>>,
               queries |-> {}, handler |-> "notFound"])

AddUpstreamRoutes(r) ==
    r \o <<Route("RegisterDaemonV6", {"GET"}, <<"v6", "daemon">>, {}),
           Route("LogEvent", {"POST"}, <<"v4", "events">>, {})>>

NewUpstreamRouter == AddUpstreamRoutes(<<>>)

NewServiceRouter ==
    AddNotFoundRoutes(
        NewAPIRouter \o
        <<Route("Automate", {"POST"}, <<"v3", "automate">>, {"service"}),
          Route("Deautomate", {"POST"}, <<"v3", "deautomate">>, {"service"}),
          Route("Lock", {"POST"}, <<"v3", "lock">>, {"service"}),
          Route("Unlock", {"POST"}, <<"v3", "unlock">>, {"service"}),
          Route("History", {"GET"}, <<"v3", "history">>, {"service"}),
          Route("Status", {"GET"}, <<"v3", "status">>, {}),
          Route("GetConfig", {"GET"}, <<"v4", "config">>, {}),
          Route("SetConfig", {"POST"}, <<"v4", "config">>, {}),
          Route("PatchConfig", {"PATCH"}, <<"v4", "config">>, {}),
          Route("GenerateDeployKeys", {"POST"}, <<"v5", "config", "deploy-keys">>, {}),
          Route("PostIntegrationsGithub", {"POST"}, <<"v5", "integrations", "github">>,
                {"owner", "repository"}),
          Route("RegisterDaemonV4", {"GET"}, <<"v4", "daemon">>, {}),
          Route("RegisterDaemonV5", {"GET"}, <<"v5", "daemon">>, {}),
          Route("IsConnected", {"HEAD", "GET"}, <<"v4", "ping">>, {})>>)

\* A router: the constructor that built it, its routes, and whether
\* NewHandler has bound the handlers to it, or panicked doing so.
Router(built, routes, st) == [built |-> built, routes |-> routes, st |-> st]
NoRouter == Router("none", <<>>, "off")

Routers ==
    {Router("NewServiceRouter", NewServiceRouter, "built"),
     Router("NewAPIRouter", NewAPIRouter, "built"),
     Router("NewUpstreamRouter", NewUpstreamRouter, "built")}

\* r.Get(name): the index of the route of that name, 0 for the nil route.
Get(routes, name) ==
    IF \E i \in 1..Len(routes) : routes[i].name = name
    THEN CHOOSE i \in 1..Len(routes) : routes[i].name = name
    ELSE 0

\* The loop of NewHandler: r.Get(method).Handler(handler) for each entry of
\* the handlers map. Handler on the nil route dereferences it: the panic
\* ends the program, and the bindings made before it with it.
NewHandler(r) ==
    IF \E name \in Handlers : Get(r.routes, name) = 0
    THEN [r EXCEPT !.st = "panic"]
    ELSE [r EXCEPT !.st = "bound",
                   !.routes = [i \in 1..Len(r.routes) |->
                                  IF r.routes[i].name \in Handlers
                                  THEN [r.routes[i] EXCEPT !.handler = r.routes[i].name]
                                  ELSE r.routes[i]]]

\* A request: its method, the segments of its (clean) path, the keys of
\* its query and the media types of its Accept header.
Methods == {"GET", "POST", "PATCH", "HEAD"}

Paths ==
    {<<"v1", "services">>, <<"v1", "">>, <<"v1">>, <<"v2", "x", "y">>, <<"v2", "daemon">>,
     <<"v4", "release">>, <<"v4", "release", "x">>, <<"v3", "services">>, <<"v6", "sync">>,
     <<"v4", "daemon">>, <<"v6", "daemon">>, <<"v4", "config">>, <<"v3", "automate">>,
     <<"nowhere">>}

Queries == {{}, {"service"}, {"namespace", "ref"}}

Requests == [method : Methods, path : Paths, query : Queries, accept : Accepts]
NoRequest == [method |-> "", path |-> <<>>, query |-> {}, accept |-> {}]

\* Whether a route's matchers all match the request.
RouteMatches(route, req) ==
    /\ CASE route.matcher = "PathPrefix" ->
                /\ Len(req.path) > Len(route.path)
                /\ SubSeq(req.path, 1, Len(route.path)) = route.path
         [] route.matcher = "Path" -> req.path = route.path
         [] OTHER -> TRUE
    /\ route.methods # {} => req.method \in route.methods
    /\ route.queries \subseteq req.query

\* Router.Match: the first route, in the order of registration, that
\* matches; 0 when none does.
Match(routes, req) ==
    LET matching == {i \in 1..Len(routes) : RouteMatches(routes[i], req)}
    IN IF matching = {} THEN 0
       ELSE CHOOSE i \in matching : \A j \in matching : i <= j

\* What serving a request came to: the route that matched, the call of
\* WriteError made and the response written.
Dispatched(route, c, r) == [route |-> route, call |-> c, resp |-> r]
NoDispatch == Dispatched("", NoCall, NoResponse)

\* http.NotFound, which the router answers with when no route matches or
\* the route that matches has no handler.
PageNotFound == Response(StatusNotFound, TextType, TextBody(<<"404 page not found">>))

\* Router.ServeHTTP: the handler of the first matching route runs. The
\* handlers NewHandler binds write their own responses.
ServeHTTP(routes, req) ==
    LET i == Match(routes, req) IN
    IF i = 0 THEN Dispatched("", NoCall, PageNotFound)
    ELSE CASE routes[i].handler = "none" -> Dispatched(routes[i].name, NoCall, PageNotFound)
           [] routes[i].handler = "deprecated" ->
                  Dispatched(routes[i].name, Call(StatusGone, ErrorDeprecated),
                         WriteError(req.accept, StatusGone, ErrorDeprecated))
           [] routes[i].handler = "notFound" ->
                  Dispatched(routes[i].name, Call(StatusNotFound, MakeAPINotFound),
                         WriteError(req.accept, StatusNotFound, MakeAPINotFound))
           [] OTHER -> Dispatched(routes[i].name, NoCall, NoResponse)

routerIdle ==
    /\ router = NoRouter
    /\ request = NoRequest
    /\ outcome = NoDispatch

-----------------------------------------------------------------------------
(* The instance configuration and its patching. The untyped form of a      *)
(* configuration is what encoding/json decodes into interface{}: nil, a    *)
(* string, a float64, or a map[string]interface{}.                         *)

JSONNull == [j |-> "null", s |-> "", m |-> <<>>]
JSONString(s) == [j |-> "string", s |-> s, m |-> <<>>]
JSONNumber == [j |-> "number", s |-> "", m |-> <<>>]
JSONObject(m) == [j |-> "object", s |-> "", m |-> m]

\* The values of the configuration's strings.
Strings == {"", "u"}

\* NotifierConfig, InstanceConfig (and UnsafeInstanceConfig, which is the
\* same struct without the methods of InstanceConfig).
NotifierConfig(hookURL, username, releaseTemplate) ==
    [HookURL |-> hookURL, Username |-> username, ReleaseTemplate |-> releaseTemplate]
InstanceConfig(slack) == [Slack |-> slack]

Configs ==
    {InstanceConfig(NotifierConfig(h, u, t)) : h \in Strings, u \in Strings, t \in Strings}

\* The zero value, UnsafeInstanceConfig{}.
ZeroConfig == InstanceConfig(NotifierConfig("", "", ""))

\* The patches: the top-level keys "slack" and "other" (a key the schema
\* does not have), and under "slack" the keys "hookURL" and "username";
\* a key may be absent, null, a string, a number or an object.
NestedValues ==
    {JSONNull, JSONString(""), JSONString("u"), JSONNumber,
     JSONObject(<<>>), JSONObject([k \in {"a"} |-> JSONString("u")])}

NestedPatches == PartialFns({"hookURL", "username"}, NestedValues)

ConfigPatches ==
    {[k \in D |-> f[k]] :
        D \in SUBSET {"slack", "other"},
        f \in [slack : {JSONNull, JSONString("u"), JSONNumber}
                           \cup {JSONObject(m) : m \in NestedPatches},
               other : {JSONNull, JSONString("u"),
                        JSONObject([k \in {"a"} |-> JSONString("u")])}]}

\* uic.toUntypedConfig(): json.Marshal, then json.Unmarshal into a map.
toUntypedConfig(uic) ==
    [k \in {"slack"} |->
        JSONObject([f \in {"hookURL", "username", "releaseTemplate"} |->
            CASE f = "hookURL" -> JSONString(uic.Slack.HookURL)
              [] f = "username" -> JSONString(uic.Slack.Username)
              [] OTHER -> JSONString(uic.Slack.ReleaseTemplate)])]

\* Whether json.Unmarshal can store a value in a string field: null leaves
\* the field alone, a string sets it, anything else is a type error.
FitsString(uc, key) == key \in DOMAIN uc => uc[key].j \in {"null", "string"}

\* The string json.Unmarshal leaves in a field that was "".
StringField(uc, key) ==
    IF key \in DOMAIN uc /\ uc[key].j = "string" THEN uc[key].s ELSE ""

\* uc.toUnsafeInstanceConfig(): json.Marshal, then json.Unmarshal into the
\* struct; keys the struct does not have are skipped, and a value of the
\* wrong type is an error, with which the zero configuration is returned.
toUnsafeInstanceConfig(uc) ==
    IF "slack" \notin DOMAIN uc \/ uc["slack"].j = "null"
    THEN [config |-> ZeroConfig, err |-> "nil"]
    ELSE IF uc["slack"].j # "object"
            \/ \E f \in {"hookURL", "username", "releaseTemplate"} :
                   ~FitsString(uc["slack"].m, f)
    THEN [config |-> ZeroConfig, err |-> "json: cannot unmarshal"]
    ELSE [config |-> InstanceConfig(NotifierConfig(
                         StringField(uc["slack"].m, "hookURL"),
                         StringField(uc["slack"].m, "username"),
                         StringField(uc["slack"].m, "releaseTemplate"))),
          err |-> "nil"]

\* applyPatch(uc, cp): for each key of the patch, nil deletes the key; a
\* map is applied to the map the key holds, which is made when the key
\* holds nil, and is skipped when the key holds anything else; any other
\* value is stored under the key. The result is the map uc is left as.
RECURSIVE applyPatch(_, _)
applyPatch(uc, cp) ==
    [key \in (DOMAIN uc \cup DOMAIN cp) \ {k \in DOMAIN cp : cp[k].j = "null"} |->
        IF key \notin DOMAIN cp THEN uc[key]
        ELSE IF cp[key].j = "object"
        THEN IF key \notin DOMAIN uc \/ uc[key].j = "null"
             THEN JSONObject(applyPatch(<<>>, cp[key].m))
             ELSE IF uc[key].j = "object"
             THEN JSONObject(applyPatch(uc[key].m, cp[key].m))
             ELSE uc[key]
        ELSE cp[key]]

\* What Patch gave: the untyped configuration after applyPatch, the
\* configuration returned and the error.
Patched(uc, uic, err) == [uc |-> uc, config |-> uic, err |-> err]
NoPatched == Patched(<<>>, ZeroConfig, "none")

\* uic.Patch(cp)
Patch(uic, cp) ==
    LET uc == applyPatch(toUntypedConfig(uic), cp)
    IN Patched(uc, toUnsafeInstanceConfig(uc).config, toUnsafeInstanceConfig(uc).err)

confIdle ==
    /\ config = ZeroConfig
    /\ patch = <<>>
    /\ patched = NoPatched
    /\ repatched = NoPatched
    /\ confPc = "off"

-----------------------------------------------------------------------------
regIdle ==
    /\ session = [i \in Instances |-> NoSession]
    /\ ping = [i \in Instances |-> NoPing]

rpcIdle ==
    /\ rpcOp = "none"
    /\ implErr = NoError
    /\ wire = NoWire
    /\ clientRes = NoClientRes
    /\ rpcPc = "off"

diffIdle ==
    /\ a = NilInterface
    /\ b = NilInterface
    /\ result = NoResult
    /\ repeat = NoResult
    /\ reverse = NoResult
    /\ pc = "off"

\* The mock is scripted with an error, or none, for its operations.
httpIdle ==
    /\ handler = "none"
    /\ accept = {}
    /\ svcErr = NoError
    /\ call = NoCall
    /\ resp = NoResponse
    /\ cli = NoClient
    /\ httpPc = "off"
    /\ invoked = <<>>
    /\ malformed = NoError

\* A request arrives with its Accept header, its parameters and body well
\* formed or not.
InitHTTP ==
    /\ handler = "none"
    /\ accept \in Accepts
    /\ svcErr = NoError
    /\ call = NoCall
    /\ resp = NoResponse
    /\ cli = NoClient
    /\ httpPc = "idle"
    /\ invoked = <<>>
    /\ malformed \in {NoError} \cup ParseErrors
    /\ diffIdle
    /\ routerIdle
    /\ confIdle
    /\ rpcIdle
    /\ regIdle

\* A handler h has run: ops are the operations of the service it invoked,
\* err the error the service gave, c its call of WriteError and r the
\* response it wrote.
Handled(h, ops, err, c, r) ==
    /\ handler' = h
    /\ invoked' = ops
    /\ svcErr' = err
    /\ call' = c
    /\ resp' = r
    /\ httpPc' = "written"
    /\ UNCHANGED <<accept, cli, malformed>>
    /\ UNCHANGED diffVars
    /\ UNCHANGED routerVars
    /\ UNCHANGED confVars
    /\ UNCHANGED rpcVars
    /\ UNCHANGED regVars

\* A handler of the common shape runs; the service gives an error or none.
HandleService ==
    /\ httpPc = "idle"
    /\ \E err \in {NoError} \cup Errors, marshals \in BOOLEAN :
          Handled("Service", <<"Service">>, err, ServiceHandlerCall(err, marshals),
                  ServiceHandler(accept, err, marshals))

\* ListImages runs: the service spec parses or not, then as HandleService.
HandleListImages ==
    /\ httpPc = "idle"
    /\ \E err \in {NoError} \cup Errors, marshals \in BOOLEAN :
          Handled("ListImages", Invokes("ListImages", malformed),
                  IF malformed # NoError THEN NoError ELSE err,
                  ListImagesCall(malformed, err, marshals),
                  ListImages(accept, malformed, err, marshals))

\* UpdateImages runs: the form, the service specs, the image spec, the
\* release kind and the excluded services parse or not, then as
\* HandleService.
HandleUpdateImages ==
    /\ httpPc = "idle"
    /\ \E err \in {NoError} \cup Errors, marshals \in BOOLEAN :
          Handled("UpdateImages", Invokes("UpdateImages", malformed),
                  IF malformed # NoError THEN NoError ELSE err,
                  UpdateImagesCall(malformed, err, marshals),
                  Written(accept, UpdateImagesCall(malformed, err, marshals),
                          JSONResponse(accept, marshals)))

\* UpdatePolicies runs: the body decodes or not, then as HandleService.
HandleUpdatePolicies ==
    /\ httpPc = "idle"
    /\ \E err \in {NoError} \cup Errors, marshals \in BOOLEAN :
          Handled("UpdatePolicies", Invokes("UpdatePolicies", malformed),
                  IF malformed # NoError THEN NoError ELSE err,
                  UpdatePoliciesCall(malformed, err, marshals),
                  Written(accept, UpdatePoliciesCall(malformed, err, marshals),
                          JSONResponse(accept, marshals)))

\* LogEvent, SetConfig or PatchConfig runs: the body decodes or not, the
\* service gives an error or none, and 200 is written with no body.
HandleDecoding ==
    /\ httpPc = "idle"
    /\ \E h \in DecodingHandlers, err \in {NoError} \cup Errors :
          Handled(h, Invokes(h, malformed),
                  IF malformed # NoError THEN NoError ELSE err,
                  DecodingHandlerCall(malformed, err),
                  Written(accept, DecodingHandlerCall(malformed, err),
                          Response(StatusOK, "", NoBody)))

\* SyncNotify runs: the service gives an error or none, and 202 is written
\* with no body.
HandleSyncNotify ==
    /\ httpPc = "idle"
    /\ \E err \in {NoError} \cup Errors :
          Handled("SyncNotify", <<"SyncNotify">>, err, SyncNotifyCall(err),
                  Written(accept, SyncNotifyCall(err),
                          Response(StatusAccepted, "", NoBody)))

HandleIsConnected ==
    /\ httpPc = "idle"
    /\ \E err \in {NoError} \cup Errors :
          Handled("IsConnected", <<"IsConnected">>, err, IsConnectedCall(err),
                  Written(accept, IsConnectedCall(err),
                          Response(StatusNoContent, "", NoBody)))

\* A retired endpoint: the deprecated handler of AddAPIRoutes.
HandleDeprecated ==
    /\ httpPc = "idle"
    /\ Handled("Deprecated", <<>>, NoError, Call(StatusGone, ErrorDeprecated),
               WriteError(accept, StatusGone, ErrorDeprecated))

\* No named route matches: the handler of AddNotFoundRoutes.
HandleNotFound ==
    /\ httpPc = "idle"
    /\ Handled("NotFound", <<>>, NoError, Call(StatusNotFound, MakeAPINotFound),
               WriteError(accept, StatusNotFound, MakeAPINotFound))

\* WriteError called with any status code and any error, as the handlers
\* do with the errors of parsing (400) and the authenticating front with
\* ErrorUnauthorized (401).
CallWriteError ==
    /\ httpPc = "idle"
    /\ \E code \in ErrorCodes,
          err \in Errors \cup {ErrorDeprecated, ErrorUnauthorized, MakeAPINotFound} :
          Handled("WriteError", <<>>, NoError, Call(code, err), WriteError(accept, code, err))

\* The client reads the response.
ExecuteRequest ==
    /\ httpPc = "written"
    /\ cli' = executeRequest(resp)
    /\ httpPc' = "decoded"
    /\ UNCHANGED <<handler, accept, svcErr, call, resp, invoked, malformed>>
    /\ UNCHANGED diffVars
    /\ UNCHANGED routerVars
    /\ UNCHANGED confVars
    /\ UNCHANGED rpcVars
    /\ UNCHANGED regVars

NextHTTP ==
    \/ HandleService
    \/ HandleListImages
    \/ HandleUpdateImages
    \/ HandleUpdatePolicies
    \/ HandleDecoding
    \/ HandleSyncNotify
    \/ HandleIsConnected
    \/ HandleDeprecated
    \/ HandleNotFound
    \/ CallWriteError
    \/ ExecuteRequest

SpecHTTP == InitHTTP /\ [][NextHTTP]_vars

-----------------------------------------------------------------------------
(* The registration as a state machine.                                    *)

InitRegister ==
    /\ regIdle
    /\ diffIdle
    /\ routerIdle
    /\ confIdle
    /\ rpcIdle
    /\ httpIdle

\* A daemon's registration request arrives on a tag's daemon path.
Connect(i) ==
    /\ session[i].pc = "start"
    /\ \E tag \in Tags, upgrades \in BOOLEAN :
          session' = [session EXCEPT ![i] =
              IF DaemonRoute(tag) \notin Handlers THEN NoHandler(@, tag)
              ELSE IF upgrades THEN doRegisterUpgraded(@, tag)
              ELSE doRegisterUpgradeFailed(@, tag)]
    /\ UNCHANGED ping
    /\ UNCHANGED <<diffVars, rpcVars, httpVars, routerVars, confVars>>

\* The daemon's side of the stream closes or fails.
StreamBreaks(i) ==
    /\ session[i].pc = "blocked"
    /\ session[i].ws = "open"
    /\ session' = [session EXCEPT ![i].ws = "broken"]
    /\ UNCHANGED ping
    /\ UNCHANGED <<diffVars, rpcVars, httpVars, routerVars, confVars>>

\* RegisterDaemon returns, with no error once the daemon has disconnected,
\* or with an error; doRegister cleans up and returns.
SessionEnds(i) ==
    /\ session[i].pc = "blocked"
    /\ \E err \in {"nil", "error"} :
          /\ err = "nil" => session[i].ws = "broken"
          /\ session' = [session EXCEPT ![i] =
                 doRegisterCleanUp(RegisterDaemonReturns(@, err))]
    /\ UNCHANGED ping
    /\ UNCHANGED <<diffVars, rpcVars, httpVars, routerVars, confVars>>

\* IsConnected is asked about an instance (by a client sending no Accept
\* header, as a HEAD request does).
Lookup(i) ==
    /\ \E err \in IsDaemonConnected(session[i]) :
          ping' = [ping EXCEPT ![i] =
              [status |-> Written({}, IsConnectedCall(err),
                                  Response(StatusNoContent, "", NoBody)).status,
               live |-> session[i].registered,
               after |-> session[i].pc = "returned"]]
    /\ UNCHANGED session
    /\ UNCHANGED <<diffVars, rpcVars, httpVars, routerVars, confVars>>

NextRegister ==
    \E i \in Instances :
        \/ Connect(i)
        \/ StreamBreaks(i)
        \/ SessionEnds(i)
        \/ Lookup(i)

\* RegisterDaemon does return once it can.
SpecRegister ==
    /\ InitRegister
    /\ [][NextRegister]_vars
    /\ \A i \in Instances : WF_vars(SessionEnds(i))

-----------------------------------------------------------------------------
(* The RPC transport as a state machine: one call and its return.          *)

InitRPC ==
    /\ rpcOp = "none"
    /\ implErr \in {NoError} \cup Errors
    /\ wire = NoWire
    /\ clientRes = NoClientRes
    /\ rpcPc = "idle"
    /\ diffIdle
    /\ routerIdle
    /\ confIdle
    /\ httpIdle
    /\ regIdle

\* The client calls an operation; the server runs it on the platform and
\* sends the response.
ServeCall ==
    /\ rpcPc = "idle"
    /\ \E op \in Operations :
          /\ rpcOp' = op
          /\ wire' = SendResponse(RPCServerMethod(op, "answer", implErr))
    /\ rpcPc' = "replied"
    /\ UNCHANGED <<implErr, clientRes>>
    /\ UNCHANGED diffVars
    /\ UNCHANGED routerVars
    /\ UNCHANGED confVars
    /\ UNCHANGED httpVars
    /\ UNCHANGED regVars

\* The client receives the response and its call returns.
ClientReturn ==
    /\ rpcPc = "replied"
    /\ clientRes' = ClientCall(wire)
    /\ rpcPc' = "done"
    /\ UNCHANGED <<rpcOp, implErr, wire>>
    /\ UNCHANGED diffVars
    /\ UNCHANGED routerVars
    /\ UNCHANGED confVars
    /\ UNCHANGED httpVars
    /\ UNCHANGED regVars

NextRPC == ServeCall \/ ClientReturn

SpecRPC == InitRPC /\ [][NextRPC]_vars

-----------------------------------------------------------------------------
(* The diff as a state machine: two values are given, Diff is called on    *)
(* them, and called once more (the map keys being visited in any order).   *)

\* One value of each runtime type, and the nil interface{}.
Representatives == {CHOOSE v \in ValuesOf[t] : TRUE : t \in RuntimeTypes}

Inputs == UNION {ValuesOf[t] : t \in RuntimeTypes} \cup {NilInterface}

InitDiff ==
    /\ a \in Inputs
    /\ b \in {v \in Inputs : v.t = a.t} \cup {v \in Representatives : v.t # a.t}
    /\ result = NoResult
    /\ repeat = NoResult
    /\ reverse = NoResult
    /\ pc = "start"
    /\ rpcIdle
    /\ routerIdle
    /\ confIdle
    /\ httpIdle
    /\ regIdle

CallDiff ==
    /\ pc = "start"
    /\ \E ord \in Orders : result' = Diff(a, b, ord)
    /\ pc' = "called"
    /\ UNCHANGED <<a, b, repeat, reverse>>
    /\ UNCHANGED rpcVars
    /\ UNCHANGED routerVars
    /\ UNCHANGED confVars
    /\ UNCHANGED httpVars
    /\ UNCHANGED regVars

\* A panic ends the program; otherwise the same call can be made again.
CallDiffAgain ==
    /\ pc = "called"
    /\ result.st # "panic"
    /\ \E ord \in Orders : repeat' = Diff(a, b, ord)
    /\ pc' = "repeated"
    /\ UNCHANGED <<a, b, result, reverse>>
    /\ UNCHANGED rpcVars
    /\ UNCHANGED routerVars
    /\ UNCHANGED confVars
    /\ UNCHANGED httpVars
    /\ UNCHANGED regVars

\* Or Diff is called with the two values exchanged.
CallDiffReversed ==
    /\ pc = "called"
    /\ result.st # "panic"
    /\ \E ord \in Orders : reverse' = Diff(b, a, ord)
    /\ pc' = "reversed"
    /\ UNCHANGED <<a, b, result, repeat>>
    /\ UNCHANGED rpcVars
    /\ UNCHANGED routerVars
    /\ UNCHANGED confVars
    /\ UNCHANGED httpVars
    /\ UNCHANGED regVars

NextDiff == CallDiff \/ CallDiffAgain \/ CallDiffReversed

SpecDiff == InitDiff /\ [][NextDiff]_vars

-----------------------------------------------------------------------------
(* The routers as a state machine: a router is built, NewHandler may bind  *)
(* the handlers to it, and it serves a request.                            *)

InitRouter ==
    /\ router \in Routers
    /\ request \in Requests
    /\ outcome = NoDispatch
    /\ diffIdle
    /\ rpcIdle
    /\ httpIdle
    /\ regIdle
    /\ confIdle

\* NewHandler(s, r, logger)
BindHandlers ==
    /\ router.st = "built"
    /\ outcome = NoDispatch
    /\ router' = NewHandler(router)
    /\ UNCHANGED <<request, outcome>>
    /\ UNCHANGED <<diffVars, rpcVars, httpVars, regVars, confVars>>

\* The router serves the request, unless the program has panicked.
ServeRequest ==
    /\ router.st \in {"built", "bound"}
    /\ outcome = NoDispatch
    /\ outcome' = ServeHTTP(router.routes, request)
    /\ UNCHANGED <<router, request>>
    /\ UNCHANGED <<diffVars, rpcVars, httpVars, regVars, confVars>>

NextRouter == BindHandlers \/ ServeRequest

SpecRouter == InitRouter /\ [][NextRouter]_vars

-----------------------------------------------------------------------------
(* The patching of a configuration as a state machine: a configuration is  *)
(* patched, and the result is patched with the same patch once more.       *)

InitConfig ==
    /\ config \in Configs
    /\ patch \in ConfigPatches
    /\ patched = NoPatched
    /\ repatched = NoPatched
    /\ confPc = "start"
    /\ diffIdle
    /\ rpcIdle
    /\ httpIdle
    /\ regIdle
    /\ routerIdle

CallPatch ==
    /\ confPc = "start"
    /\ patched' = Patch(config, patch)
    /\ confPc' = "patched"
    /\ UNCHANGED <<config, patch, repatched>>
    /\ UNCHANGED <<diffVars, rpcVars, httpVars, regVars, routerVars>>

CallPatchAgain ==
    /\ confPc = "patched"
    /\ repatched' = Patch(patched.config, patch)
    /\ confPc' = "repatched"
    /\ UNCHANGED <<config, patch, patched>>
    /\ UNCHANGED <<diffVars, rpcVars, httpVars, regVars, routerVars>>

NextConfig == CallPatch \/ CallPatchAgain

SpecConfig == InitConfig /\ [][NextConfig]_vars

-----------------------------------------------------------------------------
(* The six parts together: a run exercises one of them.                   *)

Init == InitDiff \/ InitRPC \/ InitHTTP \/ InitRegister \/ InitRouter \/ InitConfig

Next == NextDiff \/ NextRPC \/ NextHTTP \/ NextRegister \/ NextRouter \/ NextConfig

Spec == Init /\ [][Next]_vars

-----------------------------------------------------------------------------
(* Properties of the diff.                                                 *)

\* A type Diff has a case for at every position it visits: no interface or
\* func value under it (the fields that are not exported are not visited).
RECURSIVE Diffable(_)
Diffable(typ) ==
    CASE Kind(typ) \in {"interface", "func"} -> FALSE
      [] Kind(typ) \in {"ptr", "slice", "map"} -> Diffable(Elem(typ))
      [] Kind(typ) = "struct" ->
             \A i \in 1..Len(Fields(typ)) :
                 Fields(typ)[i].exported => Diffable(Fields(typ)[i].type)
      [] OTHER -> TRUE

\* C1: for every value v that Diff accepts, Diff(v, v) returns no error and
\* an empty chunk list, also when v holds nil pointers.
C1_DiffOfEqualIsEmpty ==
    (pc = "called" /\ a = b /\ a.t # "nil" /\ Diffable(a.t))
        => (result.st = "ok" /\ result.chunks = <<>>)

\* C2: when Diff returns no error and no chunk, the two values are deeply
\* equal (reflect.DeepEqual never says different where Diff says the same).
C2_EmptyDiffImpliesDeepEqual ==
    (pc = "called" /\ result.st = "ok" /\ result.chunks = <<>>) => DeepEqual(a, b)

\* C3: Diff of two values of different runtime types returns ErrNotDiffable
\* and no chunk list, on every call.
C3_DifferentTypesNotDiffable ==
    /\ (pc \in {"called", "repeated"} /\ TypeOf(a) # TypeOf(b))
           => result = Err(ErrNotDiffable)
    /\ (pc = "repeated" /\ TypeOf(a) # TypeOf(b))
           => repeat = Err(ErrNotDiffable)

\* Diff was called on a slice and an int, and on nil and a pointer.
C3_Witness ==
    /\ pc = "called"
    /\ \/ (TypeOf(a) = "SliceInt" /\ TypeOf(b) = "int")
       \/ (TypeOf(a) = "nil" /\ TypeOf(b) = "PtrInt")
    /\ result.st = "err"

\* x is a proper prefix of y: shorter, and equal to y element by element.
ProperPrefix(x, y) ==
    /\ KindOf(x) = "slice"
    /\ x.t = y.t
    /\ Len(x.elems) < Len(y.elems)
    /\ \A i \in 1..Len(x.elems) : DeepEqual(x.elems[i], y.elems[i])

\* C4: when one sequence is a proper prefix of the other, Diff yields
\* exactly one chunk, at the index equal to the shorter length, holding the
\* remaining elements of the longer one as pure deletions or pure additions.
C4_OverbiteIsOneChunk ==
    /\ (pc = "called" /\ ProperPrefix(b, a))
           => result = Ok(<<Chunk(SubSeq(a.elems, Len(b.elems) + 1, Len(a.elems)),
                                  <<>>, IndexPath(<<>>, Len(b.elems)))>>)
    /\ (pc = "called" /\ ProperPrefix(a, b))
           => result = Ok(<<Chunk(<<>>,
                                  SubSeq(b.elems, Len(a.elems) + 1, Len(b.elems)),
                                  IndexPath(<<>>, Len(a.elems)))>>)

\* The chunks are in lexical order of their paths.
SortedByPath(chunks) ==
    \A i \in 1..(Len(chunks) - 1) : ~LexLess(chunks[i + 1].Path, chunks[i].Path)

\* C5: for two mappings the chunk list is sorted lexically by path and is
\* the same on a repeated call, whatever order the keys are visited in, also
\* when several chunks carry the same path.
C5_MapDiffDeterministic ==
    (pc = "repeated" /\ KindOf(a) = "map" /\ KindOf(b) = "map")
        => /\ SortedByPath(result.chunks)
           /\ repeat = result

\* How many times a chunk occurs in a chunk list.
Count(c, chunks) == Cardinality({i \in 1..Len(chunks) : chunks[i] = c})

\* The keys of both of two maps.
CommonKeys(x, y) == DOMAIN x.m \cap DOMAIN y.m

\* The diff of the two entries of a key of both maps, as a call of its own
\* (the entries of the maps here hold no map, so the order is of no
\* account).
EntryDiff(x, y, k) == Diff(x.m[k], y.m[k], CHOOSE o \in Orders : TRUE)

\* The chunks a key of a or b accounts for: one deletion, one addition, or
\* the chunks of the diff of the two entries under the key's path.
EntryChunks(x, y, k) ==
    IF k \notin DOMAIN y.m THEN {Removed(x.m[k], KeyPath(<<>>, k))}
    ELSE IF k \notin DOMAIN x.m THEN {Added(y.m[k], KeyPath(<<>>, k))}
    ELSE IF DeepEqual(x.m[k], y.m[k]) THEN {}
    ELSE {[c EXCEPT !.Path = KeyPath(<<>>, k) \o @] :
              c \in {EntryDiff(x, y, k).chunks[n] :
                         n \in 1..Len(EntryDiff(x, y, k).chunks)}}

\* C18: for two mappings, Diff reports each key of a that b lacks as
\* exactly one pure deletion, each key of b that a lacks as exactly one
\* pure addition, and for each key of both exactly the chunks of the diff
\* of the two entries, the path extended by the key; an entry of both
\* with an equal value gives no chunk.
C18_MapDiffPerKey ==
    (/\ pc = "called"
     /\ a.t = b.t
     /\ KindOf(a) = "map"
     /\ \A k \in CommonKeys(a, b) :
            DeepEqual(a.m[k], b.m[k]) \/ EntryDiff(a, b, k).st = "ok")
        => /\ result.st = "ok"
           /\ \A c \in {result.chunks[n] : n \in 1..Len(result.chunks)}
                       \cup UNION {EntryChunks(a, b, k) : k \in DOMAIN a.m \cup DOMAIN b.m} :
                  Count(c, result.chunks)
                      = Cardinality({k \in DOMAIN a.m \cup DOMAIN b.m :
                                        c \in EntryChunks(a, b, k)})

\* C19: comparing through a pointer is transparent: for two pointers of
\* one type Diff gives what the diff of the values pointed to gives, with
\* the same paths, and when one or both are nil it still returns normally.
C19_PointerTransparent ==
    (pc = "called" /\ a.t = b.t /\ KindOf(a) = "ptr" /\ Diffable(a.t)) =>
        IF a.nil \/ b.nil
        THEN result.st # "panic"
        ELSE \E ord \in Orders : result = Diff(a.elem, b.elem, ord)

\* C20: when the comparison reaches a position whose type is an interface
\* or a func, the whole call fails with an error and no chunk list, and
\* the error is not the one given for values of different runtime types.
C20_OpaqueTypesFail ==
    (pc = "called" /\ a.t = b.t /\ a.t \in RuntimeTypes /\ ~Diffable(a.t))
        => /\ result.st = "err"
           /\ result.chunks = <<>>
           /\ result.err # ErrNotDiffable

\* C20 witness: two structs that differ in an int field and hold an
\* interface field were compared, and the call failed with no chunk.
C20_Witness ==
    /\ pc = "called"
    /\ a.t = "E"
    /\ b.t = "E"
    /\ a.fields[1] # b.fields[1]
    /\ result.st = "err"
    /\ result.chunks = <<>>

\* The digit a character is.
DigitValue(c) == CHOOSE n \in 0..9 : Digits[n + 1] = c

\* The number written in decimal at the head of s, up to its "]".
RECURSIVE ParseIndex(_, _)
ParseIndex(s, n) ==
    IF s = <<>> \/ Head(s) = "]" THEN n
    ELSE ParseIndex(Tail(s), 10 * n + DigitValue(Head(s)))

\* The positions of the chunks that come of the sequence at path: those
\* whose paths go on with an index.
SequenceChunks(chunks, path) ==
    {i \in 1..Len(chunks) :
        /\ Len(chunks[i].Path) > Len(path) + 1
        /\ SubSeq(chunks[i].Path, 1, Len(path) + 1) = path \o <<"[">>}

\* The index of a sequence's chunk.
ChunkIndex(chunk, path) ==
    ParseIndex(SubSeq(chunk.Path, Len(path) + 2, Len(chunk.Path)), 0)

\* The chunks that come of the sequences x and y at path are in ascending
\* order of index, and the chunk of the over- or underbite, if the lengths
\* differ, is the last of them.
Positional(chunks, path, x, y) ==
    LET shorter == IF Len(x.elems) < Len(y.elems) THEN Len(x.elems) ELSE Len(y.elems)
    IN /\ \A i, j \in SequenceChunks(chunks, path) :
              i < j => ChunkIndex(chunks[i], path) <= ChunkIndex(chunks[j], path)
       /\ Len(x.elems) # Len(y.elems)
              => \E j \in SequenceChunks(chunks, path) :
                     /\ chunks[j].Path = IndexPath(path, shorter)
                     /\ \A i \in SequenceChunks(chunks, path) : i <= j

\* C22: in every chunk list Diff returns, the chunks that come of a
\* sequence are in ascending order of index with the chunk of the over- or
\* underbite last among them, for a sequence at the top and for a sequence
\* held in a map, whose chunks are sorted lexically by path.
C22_SequenceChunksPositional ==
    (pc = "called" /\ result.st = "ok")
        => /\ KindOf(a) = "slice" => Positional(result.chunks, <<>>, a, b)
           /\ (KindOf(a) = "map" /\ Kind(Elem(a.t)) = "slice")
                  => \A k \in CommonKeys(a, b) :
                         Positional(result.chunks, KeyPath(<<>>, k), a.m[k], b.m[k])

\* A chunk with what it added and what it deleted exchanged.
Exchanged(chunk) == Chunk(chunk.Added, chunk.Deleted, chunk.Path)

\* C26: Diff is antisymmetric: when Diff(a, b) succeeds for two values of
\* the same type, Diff(b, a) succeeds and gives the chunks of Diff(a, b),
\* with the same paths in the same order, each with Added and Deleted
\* exchanged.
C26_DiffAntisymmetric ==
    (pc = "reversed" /\ TypeOf(a) = TypeOf(b) /\ result.st = "ok")
        => /\ reverse.st = "ok"
           /\ Len(reverse.chunks) = Len(result.chunks)
           /\ \A i \in 1..Len(result.chunks) :
                  reverse.chunks[i] = Exchanged(result.chunks[i])

-----------------------------------------------------------------------------
(* Properties of the RPC transport.                                        *)

\* The kind a caller can branch on: the classified kind of the error's
\* cause, or "plain".
ErrorKind(err) == Cause(err).kind

\* C6: when the wrapped implementation returns an error, the call made
\* through the RPC transport returns a non-nil error of the same kind, for
\* every operation.
C6_ErrorSurfacesWithKind ==
    (rpcPc = "done" /\ implErr # NoError)
        => /\ clientRes.err # NoError
           /\ ErrorKind(clientRes.err) = ErrorKind(implErr)

\* C17: for every operation of RPCServer, a classified error of the
\* platform (also a wrapped one) reaches the caller in the response's
\* Error field, with its kind and help text; an unclassified error leaves
\* the Error field empty and crosses as a plain message string only.
C17_ClassifiedErrorInErrorField ==
    (rpcPc \in {"replied", "done"} /\ implErr # NoError) =>
        IF Cause(implErr).kind \in Classified
        THEN wire.Reply.Error = Cause(implErr)
        ELSE /\ wire.Reply.Error = NoError
             /\ wire.Error = ErrorText(implErr)

-----------------------------------------------------------------------------
(* Properties of the HTTP transport.                                       *)

FiveKinds == {"Unauthorized", "NotFound", "Deprecated", "UserConfigProblem",
              "ServerException"}

StatusOfKind(kind) ==
    CASE kind = "Unauthorized" -> 401
      [] kind = "NotFound" -> 404
      [] kind = "Deprecated" -> 410
      [] kind = "UserConfigProblem" -> 422
      [] OTHER -> 500

KindOfStatus(status) ==
    CASE status = 401 -> "Unauthorized"
      [] status = 404 -> "NotFound"
      [] status = 410 -> "Deprecated"
      [] status = 422 -> "UserConfigProblem"
      [] OTHER -> "ServerException"

Answered == httpPc \in {"written", "decoded"}

\* The request was made by the flux client, which accepts JSON only.
FluxClient == accept = {"application/json"}

\* The error carries an envelope: it is, or embeds, a BaseError.
HasEnvelope(err) == err.kind \notin {"plain", "nil"} /\ ~err.wrapped

\* C7: ErrorResponse classifies the root cause of its error: Missing is
\* written with 404, UserConfigProblem with 422, ServerException with 500,
\* any other error as the cover-all envelope with 500; what is written is
\* the envelope (message and help) of the classified error, not the
\* original error.
C7_ErrorResponseClassifies ==
    (Answered /\ handler = "Service" /\ svcErr # NoError) =>
        LET root == Cause(svcErr)
            known == root.kind \in Classified
        IN /\ call.code = (IF known THEN StatusOfKind(root.kind) ELSE 500)
           /\ call.err.kind = "BaseError"
           /\ call.err.msg = (IF known THEN root.msg ELSE ErrorText(svcErr))
           /\ known => call.err.help = root.help
           /\ resp.status = call.code
           /\ "application/json" \in accept
                  => resp.body = EnvelopeBody(call.err.msg, call.err.help)

\* C7 witness: a wrapped Missing error was answered with 404 and the
\* envelope of the Missing error.
C7_Witness ==
    /\ Answered
    /\ handler = "Service"
    /\ svcErr.kind = "NotFound"
    /\ svcErr.wrapped
    /\ resp.status = 404
    /\ resp.body = EnvelopeBody(svcErr.msg, svcErr.help)

\* C11: every error response sent to a client that accepts JSON has a body
\* that is an error envelope (message and help), whatever handler wrote it
\* and also for an unclassified error; no handler sends a JSON error
\* body without the envelope's fields.
C11_ErrorBodyIsEnvelope ==
    (Answered /\ "application/json" \in accept
              /\ handler \notin {"none", "WriteError"} /\ call # NoCall)
        => /\ IsJSON(resp.ctype)
           /\ resp.body.form = "envelope"

\* C12: JSONResponse writes 200 and the marshaled result when the result
\* marshals; when it does not, it writes a whole error response through
\* ErrorResponse: status 500 and the cover-all envelope. Either way the
\* response has a status and a body.
C12_JSONResponseComplete ==
    (Answered /\ handler = "Service" /\ svcErr = NoError) =>
        IF call = NoCall
        THEN resp = Response(200, JSONType, ResultBody)
        ELSE /\ call = Call(500, CoverAllError(MarshalFailure))
             /\ resp.status = 500
             /\ resp.body.form \in {"envelope", "text"}
             /\ "application/json" \in accept
                    => /\ IsJSON(resp.ctype)
                       /\ resp.body = EnvelopeBody(call.err.msg, call.err.help)

\* C12 witness: a result that did not marshal was answered with 500 and
\* the cover-all envelope.
C12_Witness ==
    /\ Answered
    /\ handler = "Service"
    /\ svcErr = NoError
    /\ call.err = CoverAllError(MarshalFailure)
    /\ resp.status = 500
    /\ resp.body.form = "envelope"

\* The kind of the error a handler reports, an unclassified error counting
\* as a ServerException.
ReportedKind ==
    CASE handler \in {"Service", "IsConnected"} /\ svcErr # NoError ->
             IF ErrorKind(svcErr) \in Classified THEN ErrorKind(svcErr)
             ELSE "ServerException"
      [] handler = "Deprecated" -> "Deprecated"
      [] handler = "NotFound" -> "NotFound"
      [] OTHER -> "none"

CannotContact ==
    handler = "IsConnected" /\ svcErr.kind = "UserConfigProblem" /\ ~svcErr.wrapped

OriginalError == IF svcErr # NoError THEN svcErr ELSE call.err

PlainTextOf(err) ==
    IF "text/plain" \in accept /\ err.kind = "BaseError"
    THEN TextBody(<<err.help>>)
    ELSE TextBody(ErrorText(err))

\* C10 as stated: on every call of WriteError, a request accepting
\* application/json gets a JSON body with a JSON content type, any other
\* request gets plain text only (the help text or the raw error text), and
\* the status code is the one passed to WriteError.
C10_WriteErrorNegotiates ==
    (Answered /\ call # NoCall) =>
        /\ resp.status = call.code
        /\ IF "application/json" \in accept
           THEN IsJSON(resp.ctype) /\ resp.body.form \in {"envelope", "object"}
           ELSE /\ resp.ctype = TextType
                /\ resp.body \in {TextBody(<<call.err.help>>),
                                  TextBody(ErrorText(call.err))}

\* C10 amended: as stated whenever the error can be encoded as JSON; for
\* a request accepting application/json and an error json.Marshal fails
\* on, WriteError writes status 500 and a plain text that says so.
C10_WriteErrorNegotiatesEncodable ==
    (Answered /\ call # NoCall) =>
        IF "application/json" \in accept
        THEN IF call.err.encodable
             THEN /\ resp.status = call.code
                  /\ IsJSON(resp.ctype)
                  /\ resp.body = MarshalError(call.err)
             ELSE /\ resp.status = 500
                  /\ resp.ctype = TextType
                  /\ resp.body.form = "text"
        ELSE /\ resp.status = call.code
             /\ resp.ctype = TextType
             /\ resp.body = PlainTextOf(call.err)

\* C10 witness: WriteError was called with 404 and an error that cannot be
\* encoded, for a request accepting application/json, and wrote 500 as
\* plain text.
C10_Witness ==
    /\ Answered
    /\ "application/json" \in accept
    /\ ~call.err.encodable
    /\ call.code = 404
    /\ resp.status = 500
    /\ resp.ctype = TextType

\* The handlers of the operations the HTTP client has: those of the common
\* shape (ListServices, JobStatus, SyncStatus, Export) and ListImages,
\* UpdateImages, UpdatePolicies, SyncNotify and LogEvent.
ClientOperations ==
    {"Service", "ListImages", "UpdateImages", "UpdatePolicies", "SyncNotify", "LogEvent"}

\* The handler completed successfully: the service gave no error and the
\* handler made no call of WriteError.
HandlerSucceeded == svcErr = NoError /\ call = NoCall

\* C23: for every operation of the HTTP client, when the handler of the
\* operation completes successfully the client's call returns no error:
\* every status a handler writes on success (200, 202 for SyncNotify, 204)
\* is one Client.executeRequest takes for success.
C23_HandlerSuccessIsClientSuccess ==
    (httpPc = "decoded" /\ handler \in ClientOperations /\ HandlerSucceeded)
        => cli.err = NoError

\* The handlers that parse the request's parameters or body.
ParsingHandlers ==
    {"ListImages", "UpdateImages", "UpdatePolicies", "LogEvent", "SetConfig", "PatchConfig"}

\* C25: in the handlers that parse request input (ListImages, UpdateImages,
\* UpdatePolicies, LogEvent, SetConfig, PatchConfig), a request whose
\* parameters or body do not parse is answered with status 400 and no
\* operation of the service is invoked: no job identifier is made, no state
\* changed.
C25_MalformedRequestNotInvoked ==
    (Answered /\ handler \in ParsingHandlers /\ malformed # NoError)
        => /\ resp.status = StatusBadRequest
           /\ call.code = StatusBadRequest
           /\ Cause(call.err) = malformed
           /\ invoked = <<>>
           /\ resp.body.form # "result"

\* C25's case: PatchConfig was given a body that does not decode.
C25_Witness ==
    /\ Answered
    /\ handler = "PatchConfig"
    /\ malformed # NoError
    /\ resp.status = StatusBadRequest
    /\ invoked = <<>>

-----------------------------------------------------------------------------
(* Properties of the registration.                                         *)

\* C13: when the upgrade of a registration request fails, doRegister
\* answers 400 and returns with no RPC client made, the daemon not
\* registered and nothing closed: no session state exists for the request.
C13_FailedUpgradeLeavesNothing ==
    \A i \in Instances :
        session[i].status = 400
            => /\ session[i].pc = "returned"
               /\ session[i].rpcClient = "none"
               /\ session[i].gen = "none"
               /\ session[i].ws = "none"
               /\ ~session[i].registered
               /\ session[i].err = "none"

\* C13 witness: a registration request whose upgrade failed was answered
\* with 400 and doRegister has returned.
C13_Witness ==
    \E i \in Instances :
        /\ session[i].status = 400
        /\ session[i].pc = "returned"
        /\ session[i].tag = "v6"

\* C14: after a successful upgrade doRegister does not return while the
\* daemon's session is live; when the session has ended, with or without
\* an error from RegisterDaemon, the RPC client and the stream are closed
\* by the time doRegister has returned; the stream is never closed while
\* the instance is still registered.
C14_SessionClosedOnReturn ==
    \A i \in Instances :
        /\ session[i].registered => session[i].pc = "blocked"
        /\ (session[i].pc = "returned" /\ session[i].status = 101)
               => /\ ~session[i].registered
                  /\ session[i].rpcClient = "closed"
                  /\ session[i].ws = "closed"
        /\ session[i].ws = "closed" => ~session[i].registered

\* C14 witness: a session ended with an error from RegisterDaemon while
\* the stream was sound, and doRegister returned with client and stream
\* closed.
C14_Witness ==
    \E i \in Instances :
        /\ session[i].pc = "returned"
        /\ session[i].status = 101
        /\ session[i].err = "error"
        /\ session[i].rpcClient = "closed"
        /\ session[i].ws = "closed"

C16_EveryTagHasHandler ==
    \A i \in Instances :
        session[i].tag \in Tags
            => /\ DaemonRoute(session[i].tag) \in Handlers
               /\ session[i].status # 404
               /\ session[i].status = 101 => session[i].gen = session[i].tag

-----------------------------------------------------------------------------
(* Properties of the routers.                                              *)

\* A retired endpoint: a path under /v1/ or /v2/, or /v4/release.
Retired(req) ==
    \/ Len(req.path) >= 2 /\ req.path[1] \in {"v1", "v2"}
    \/ req.path = <<"v4", "release">>

\* The request matches a route of the router other than the catch-all.
MatchesNamedRoute(routes, req) ==
    \E i \in 1..Len(routes) :
        routes[i].name # "NotFound" /\ RouteMatches(routes[i], req)

ServiceRouterServed == router.built = "NewServiceRouter" /\ outcome # NoDispatch

C24_EveryHandlerHasRoute ==
    (router.built = "NewServiceRouter" /\ router.st # "built")
        => /\ \A name \in Handlers : Get(router.routes, name) # 0
           /\ router.st = "bound"

-----------------------------------------------------------------------------
(* Properties of the configuration's patching.                             *)

\* The patch p shows in the untyped configuration res: a key p gives null
\* is gone, a key p gives an object holds an object in which that object
\* shows, a key p gives any other value holds that value.
RECURSIVE Applied(_, _)
Applied(res, p) ==
    \A k \in DOMAIN p :
        CASE p[k].j = "null" -> k \notin DOMAIN res
          [] p[k].j = "object" ->
                 /\ k \in DOMAIN res
                 /\ res[k].j = "object"
                 /\ Applied(res[k].m, p[k].m)
          [] OTHER -> k \in DOMAIN res /\ res[k] = p[k]

\* Every key of uc that p does not mention, at any depth, has in res the
\* value it has in uc.
RECURSIVE Kept(_, _, _)
Kept(uc, res, p) ==
    \A k \in DOMAIN uc :
        /\ k \notin DOMAIN p => (k \in DOMAIN res /\ res[k] = uc[k])
        /\ (k \in DOMAIN p /\ p[k].j = "object" /\ uc[k].j = "object")
               => /\ k \in DOMAIN res
                  /\ res[k].j = "object"
                  /\ Kept(uc[k].m, res[k].m, p[k].m)

\* Patching the result with the same patch gives the same configuration,
\* or the same error.
Idempotent == repatched.config = patched.config /\ repatched.err = patched.err

\* C27: applying a patch is idempotent and key-local: patching the result
\* of a patch with the same patch gives the same configuration as patching
\* once, every key the patch does not mention, at any depth, keeps its
\* value, a null in the patch deletes its key, an object in the patch is
\* merged recursively, and any other value replaces the key's value.
C27_PatchIdempotentKeyLocal ==
    /\ confPc \in {"patched", "repatched"}
           => /\ Kept(toUntypedConfig(config), patched.uc, patch)
              /\ Applied(patched.uc, patch)
    /\ confPc = "repatched" => Idempotent

====
